---- MODULE Spec2Model ----
(***************************************************************************)
(* Model of app.py: the CPF normaliser/validator (limpar_cpf,              *)
(* validar_cpf_algoritmo), the form's cpf validators (InscricaoForm) and   *)
(* the index() request handler writing Inscricao rows through a session.   *)
(*                                                                         *)
(* A Python str is a sequence of code points; a code point is written as   *)
(* a one-character string, or as "Uxxxx" for a code point outside ASCII.   *)
(***************************************************************************)
EXTENDS Integers, Sequences, FiniteSets, TLC

----------------------------------------------------------------------------
(* Code points and the character predicates the code relies on.            *)

\* '0'..'9'
ASCII_DIGITS == <<"0", "1", "2", "3", "4", "5", "6", "7", "8", "9">>

\* ARABIC-INDIC DIGIT ZERO..NINE (category Nd): str.isdigit() is True,
\* \d matches them and int() gives their value.
ARABIC_INDIC_DIGITS ==
  <<"U0660", "U0661", "U0662", "U0663", "U0664",
    "U0665", "U0666", "U0667", "U0668", "U0669">>

\* SUPERSCRIPT TWO (category No): str.isdigit() is True, \d does not match
\* it and int() raises ValueError.
SUPERSCRIPT_TWO == "U00B2"

\* LINE FEED
LF == "LF"

Range(s) == {s[i] : i \in DOMAIN s}

IndexOf(s, c) == CHOOSE i \in DOMAIN s : s[i] = c

\* str.isdigit() of one character
isdigit(c) ==
  \/ c \in Range(ASCII_DIGITS)
  \/ c \in Range(ARABIC_INDIC_DIGITS)
  \/ c = SUPERSCRIPT_TWO

\* int(d) of one character returns (True) or raises ValueError (False)
int_returns(c) == c \in Range(ASCII_DIGITS) \cup Range(ARABIC_INDIC_DIGITS)

\* int(d) of one character, where it returns
int(c) ==
  IF c \in Range(ASCII_DIGITS)
  THEN IndexOf(ASCII_DIGITS, c) - 1
  ELSE IndexOf(ARABIC_INDIC_DIGITS, c) - 1

\* the class [\d\.\- ] of the cpf field's Regexp (a str pattern: \d is
\* every Unicode decimal digit)
RegexpClass(c) ==
  \/ c \in Range(ASCII_DIGITS)
  \/ c \in Range(ARABIC_INDIC_DIGITS)
  \/ c \in {".", "-", " "}

\* str.strip() leaves nothing: every character is whitespace
IsBlank(s) == \A i \in DOMAIN s : s[i] \in {" ", LF}

----------------------------------------------------------------------------
(* Utilitarios                                                             *)

\* "".join([c for c in (cpf_str or "") if c.isdigit()])
limpar_cpf(cpf_str) == SelectSeq(cpf_str, isdigit)

RECURSIVE WeightedSum(_, _)
\* sum(int(d) * w for d, w in zip(digs, range(w, 1, -1)))
WeightedSum(digs, w) ==
  IF digs = <<>> \/ w <= 1
  THEN 0
  ELSE int(Head(digs)) * w + WeightedSum(Tail(digs), w - 1)

\* the nested function calc of validar_cpf_algoritmo
calc(digs) ==
  LET s == WeightedSum(digs, Len(digs) + 1)
      r == (s * 10) % 11
  IN  IF r < 10 THEN r ELSE 0

\* Outcome of validar_cpf_algoritmo: "True", "False", or "ValueError" when
\* an int(d) raises.  calc(cpf[:9]) and calc(cpf[:10]) convert the first
\* ten characters; int(cpf[10]) is evaluated only when the first check
\* digit matched (the 'and' short-circuits).
validar_cpf_algoritmo(cpf_in) ==
  LET cpf == limpar_cpf(cpf_in)
  IN  IF Len(cpf) # 11 \/ (\A i \in 1..11 : cpf[i] = cpf[1])
      THEN "False"
      ELSE IF \E i \in 1..10 : ~int_returns(cpf[i])
      THEN "ValueError"
      ELSE LET first  == calc(SubSeq(cpf, 1, 9))
               second == calc(SubSeq(cpf, 1, 10))
           IN  IF first # int(cpf[10])
               THEN "False"
               ELSE IF ~int_returns(cpf[11])
               THEN "ValueError"
               ELSE IF second = int(cpf[11]) THEN "True" ELSE "False"

----------------------------------------------------------------------------
(* Formulario: the validators of InscricaoForm                             *)

\* DataRequired: the data is non-empty and not only whitespace
DataRequired(data) == data # <<>> /\ ~IsBlank(data)

\* Regexp(r'^[\d\.\- ]+$') applied with re.match: one or more characters
\* of the class, then the end of the string or a final line feed
Regexp(data) ==
  LET n    == Len(data)
      body == IF n > 0 /\ data[n] = LF THEN SubSeq(data, 1, n - 1) ELSE data
  IN  body # <<>> /\ \A i \in DOMAIN body : RegexpClass(body[i])

\* validate_cpf without its check: every cpf passes
validate_cpf_sem_checagem(raw) == "ok"

\* InscricaoForm.validate_cpf: "ok" (field.data becomes cpf_norm),
\* "ValidationError", or "ValueError" escaping from validar_cpf_algoritmo
validate_cpf(raw) ==
  LET cpf_norm == limpar_cpf(raw)
      v        == validar_cpf_algoritmo(cpf_norm)
  IN  IF v = "True" THEN "ok"
      ELSE IF v = "False" THEN "ValidationError"
      ELSE "ValueError"

\* The cpf field's validation chain: DataRequired stops the chain, Regexp
\* records its error and the chain goes on to validate_cpf.
\* "valid", "invalid", or "ValueError".
cpf_field(raw) ==
  IF ~DataRequired(raw) THEN "invalid"
  ELSE IF validate_cpf(raw) = "ValueError" THEN "ValueError"
  ELSE IF Regexp(raw) /\ validate_cpf(raw) = "ok" THEN "valid"
  ELSE "invalid"

\* validate_cpf without "field.data = cpf_norm": the raw text is kept
cpf_data_sem_normalizar(raw) == raw

\* form.cpf.data once the cpf field validated
cpf_data(raw) == limpar_cpf(raw)

\* form.validate_on_submit(): the request is a POST and every field
\* validates (cpf is the first field; nome is DataRequired; outros_ok
\* stands for the remaining fields' validators and the CSRF token)
validate_on_submit(r) ==
  IF r.method # "POST" THEN "invalid"
  ELSE IF cpf_field(r.cpf) = "ValueError" THEN "ValueError"
  ELSE IF cpf_field(r.cpf) = "valid" /\ r.nome # "" /\ r.outros_ok
  THEN "valid"
  ELSE "invalid"

----------------------------------------------------------------------------
(* Configuracao and bounds                                                 *)

\* APP_START_DATE, as a day number
StartDate == 1

\* last day the clock reaches
MaxDay == 2

\* number of requests that can be in progress at once
NProcs == 2

Procs == 1..NProcs

\* D(<<1, 2>>) is the str "12"
D(ns) == [i \in DOMAIN ns |-> ASCII_DIGITS[ns[i] + 1]]

\* the same digits written with ARABIC-INDIC DIGITs
A(ns) == [i \in DOMAIN ns |-> ARABIC_INDIC_DIGITS[ns[i] + 1]]

\* ddd.ddd.ddd-dd
Pontuado(c) ==
  SubSeq(c, 1, 3) \o <<".">> \o SubSeq(c, 4, 6) \o <<".">> \o
  SubSeq(c, 7, 9) \o <<"-">> \o SubSeq(c, 10, 11)

\* ddd/ddd/ddd-dd
ComBarras(c) ==
  SubSeq(c, 1, 3) \o <<"/">> \o SubSeq(c, 4, 6) \o <<"/">> \o
  SubSeq(c, 7, 9) \o <<"-">> \o SubSeq(c, 10, 11)

\* s with its k-th character replaced by c
Subst(s, k, c) == [s EXCEPT ![k] = c]

CPF_X == <<1, 1, 1, 4, 4, 4, 7, 7, 7, 3, 5>>
CPF_Y == <<1, 2, 3, 4, 5, 6, 7, 8, 9, 0, 9>>

\* raw cpf values submitted to index()
RawCpfs ==
  { D(CPF_X), Pontuado(D(CPF_X)), ComBarras(D(CPF_X)),
    D(<<1, 1, 1, 4, 4, 4, 7, 7, 7, 3, 6>>),
    A(CPF_X),
    Subst(D(CPF_X), 2, SUPERSCRIPT_TWO) }

\* the requests index() receives
Requests ==
  { [method |-> "POST", cpf |-> c, nome |-> "Ana", outros_ok |-> TRUE] :
      c \in RawCpfs }
  \cup
  { [method |-> "POST", cpf |-> D(CPF_X), nome |-> "", outros_ok |-> TRUE],
    [method |-> "GET", cpf |-> <<>>, nome |-> "", outros_ok |-> TRUE] }

\* validate_on_submit and form.cpf.data of every request, tabulated
FormResult ==
  [r \in Requests |->
     [valid |-> validate_on_submit(r), cpf |-> cpf_data(r.cpf)]]

NoRequest == [method |-> "none", cpf |-> <<>>, nome |-> "", outros_ok |-> TRUE]

----------------------------------------------------------------------------
(* State                                                                   *)

VARIABLES
  store,    \* the rows of table inscricao, in insertion order
  hoje,     \* date.today(), as a day number
  pc,       \* pc[p]: where request p is in index()
  req,      \* req[p]: the request being served
  session,  \* session[p]: the objects added to p's db.session, not yet committed
  resp,     \* resp[p]: the response returned
  entrada,  \* argument of a call of validar_cpf_algoritmo
  resultado \* its outcome

vars == <<store, hoje, pc, req, session, resp, entrada, resultado>>

web_vars == <<store, hoje, pc, req, session, resp>>

NoResp == [view |-> "none", cpf |-> <<>>]

View(v) == [view |-> v, cpf |-> <<>>]

\* redirect(url_for("sucesso", cpf=inscr.cpf))
Redirect(cpf) == [view |-> "sucesso", cpf |-> cpf]

Init ==
  /\ store = <<>>
  /\ hoje = 0
  /\ pc = [p \in Procs |-> "idle"]
  /\ req = [p \in Procs |-> NoRequest]
  /\ session = [p \in Procs |-> <<>>]
  /\ resp = [p \in Procs |-> NoResp]
  /\ entrada = <<>>
  /\ resultado = "none"

----------------------------------------------------------------------------
(* Modelo: table inscricao                                                 *)

\* the cpf column without unique=True: no INSERT is refused
unique_violation_sem_unique(rows, row) == FALSE

\* cpf = db.Column(db.String(11), unique=True, ...): the INSERT of a row
\* whose cpf some stored row has raises IntegrityError
unique_violation(rows, row) == \E i \in DOMAIN rows : rows[i].cpf = row.cpf

\* id = db.Column(db.Integer, primary_key=True): the next key
next_id(rows) == Len(rows) + 1

\* a commit that writes nothing
insert_perdido(rows, row) == rows

\* the table after the INSERT of row
insert(rows, row) ==
  Append(rows, [id |-> next_id(rows), cpf |-> row.cpf, nome |-> row.nome])

----------------------------------------------------------------------------
(* Rotas                                                                   *)

\* the date comparison turned around
bloqueado_invertido(d) == d > StartDate

\* if hoje < start_date: return render_template("bloqueado.html", ...)
bloqueado(d) == d < StartDate

\* index() from its entry to db.session.add(inscr)
index_begin(p, r) ==
  /\ pc[p] \in {"idle", "done"}
  /\ req' = [req EXCEPT ![p] = r]
  /\ IF bloqueado(hoje)
     THEN /\ resp' = [resp EXCEPT ![p] = View("bloqueado")]
          /\ pc' = [pc EXCEPT ![p] = "done"]
          /\ UNCHANGED session
     ELSE CASE FormResult[r].valid = "valid" ->
                 /\ session' = [session EXCEPT ![p] =
                       <<[cpf |-> FormResult[r].cpf, nome |-> r.nome]>>]
                 /\ pc' = [pc EXCEPT ![p] = "added"]
                 /\ resp' = [resp EXCEPT ![p] = NoResp]
            [] FormResult[r].valid = "invalid" ->
                 /\ resp' = [resp EXCEPT ![p] = View("register")]
                 /\ pc' = [pc EXCEPT ![p] = "done"]
                 /\ UNCHANGED session
            [] FormResult[r].valid = "ValueError" ->
                 \* the ValueError is recorded as a field error or leaves
                 \* index(), depending on the wtforms release
                 /\ \E v \in {"register", "erro500"} :
                      resp' = [resp EXCEPT ![p] = View(v)]
                 /\ pc' = [pc EXCEPT ![p] = "done"]
                 /\ UNCHANGED session
  /\ UNCHANGED <<store, hoje, entrada, resultado>>

\* index() from db.session.commit() to its return
index_commit(p) ==
  /\ pc[p] = "added"
  /\ LET inscr == session[p][1]
     IN  IF unique_violation(store, inscr)
         THEN \* except IntegrityError: db.session.rollback()
              /\ UNCHANGED store
              /\ resp' = [resp EXCEPT ![p] = View("duplicado")]
         ELSE /\ store' = insert(store, inscr)
              /\ resp' = [resp EXCEPT ![p] = Redirect(inscr.cpf)]
  /\ session' = [session EXCEPT ![p] = <<>>]
  /\ pc' = [pc EXCEPT ![p] = "done"]
  /\ UNCHANGED <<hoje, req, entrada, resultado>>

\* the calendar day changes
passa_dia ==
  /\ hoje < MaxDay
  /\ hoje' = hoje + 1
  /\ UNCHANGED <<store, pc, req, session, resp, entrada, resultado>>

Next ==
  \/ \E p \in Procs : \E r \in Requests : index_begin(p, r)
  \/ \E p \in Procs : index_commit(p)
  \/ passa_dia

Spec == Init /\ [][Next]_vars

\* the concurrent-submission scenario: every request is the first one of
\* its process, so the final state shows each request and its response
corrida_begin(p, r) == pc[p] = "idle" /\ index_begin(p, r)

NextCorrida ==
  \/ \E p \in Procs : \E r \in Requests : corrida_begin(p, r)
  \/ \E p \in Procs : index_commit(p)
  \/ passa_dia

SpecCorrida == Init /\ [][NextCorrida]_vars

----------------------------------------------------------------------------
(* Calls of validar_cpf_algoritmo on its own                               *)

\* longest of the short strings passed to validar_cpf_algoritmo
MaxCurto == 2

Alfabeto == {"1", "7", ".", "a", SUPERSCRIPT_TWO, ARABIC_INDIC_DIGITS[2]}

Curtas == UNION {[1..n -> Alfabeto] : n \in 0..MaxCurto}

\* first nine digits: CPF_X's and CPF_Y's (first check digit folded from
\* 10 to 0), one whose second check digit folds, one where both fold, and
\* the ten repeated-digit prefixes
Bases ==
  { SubSeq(CPF_X, 1, 9), SubSeq(CPF_Y, 1, 9),
    <<1, 0, 0, 0, 0, 0, 0, 2, 8>>, <<1, 0, 0, 0, 0, 0, 0, 4, 6>> }
  \cup { [i \in 1..9 |-> d] : d \in 0..9 }

\* every pair of check digits after every base
Onze == { b \o <<x, y>> : b \in Bases, x \in 0..9, y \in 0..9 }

Conhecidos == {D(CPF_X), D(CPF_Y)}

Variantes ==
  UNION { { Pontuado(c), ComBarras(c), c \o <<LF>>, c \o <<"1">>,
            SubSeq(c, 1, 10) }
          \cup { Subst(c, k, ch) :
                   k \in 1..11,
                   ch \in {SUPERSCRIPT_TWO, ARABIC_INDIC_DIGITS[2], "a", "."} }
          : c \in Conhecidos }

Entradas ==
  Curtas
  \cup { D(n) : n \in Onze }
  \cup { A(b \o <<x, y>>) : b \in {SubSeq(CPF_X, 1, 9)}, x \in 0..9, y \in 0..9 }
  \cup Variantes
  \cup { Subst(D(SubSeq(CPF_X, 1, 9) \o <<x, 0>>), 11, SUPERSCRIPT_TWO) :
           x \in 0..9 }
  \cup { [i \in 1..11 |-> SUPERSCRIPT_TWO] }

InitV ==
  /\ store = <<>>
  /\ hoje = 0
  /\ pc = [p \in Procs |-> "idle"]
  /\ req = [p \in Procs |-> NoRequest]
  /\ session = [p \in Procs |-> <<>>]
  /\ resp = [p \in Procs |-> NoResp]
  /\ entrada \in Entradas
  /\ resultado = "none"

\* resultado = validar_cpf_algoritmo(entrada)
chama_validar ==
  /\ resultado = "none"
  /\ resultado' = validar_cpf_algoritmo(entrada)
  /\ UNCHANGED <<store, hoje, pc, req, session, resp, entrada>>

NextV == chama_validar

SpecV == InitV /\ [][NextV]_vars

----------------------------------------------------------------------------
(* Properties                                                              *)

\* the rows of rows whose cpf is c
RowsWith(rows, c) == {i \in DOMAIN rows : rows[i].cpf = c}

\* validar_cpf_algoritmo of every cpf a request can put in a row, tabulated
Validado ==
  [c \in {FormResult[r].cpf : r \in Requests} \cup {r.cpf : r \in Requests}
     |-> validar_cpf_algoritmo(c)]

\* the requests of the form "POST, every field but cpf valid"
OutrosValidos(r) == r.method = "POST" /\ r.nome # "" /\ r.outros_ok

(* C1: in every reachable state no two stored rows have the same cpf.      *)
C1_CpfUnico ==
  \A i, j \in DOMAIN store : i # j => store[i].cpf # store[j].cpf

\* two rows are stored and a submission was rejected as a duplicate
C1_Witness ==
  /\ Len(store) >= 2
  /\ \E p \in Procs : pc[p] = "done" /\ resp[p].view = "duplicado"

\* the processes whose request, ended and not answered "not yet open", was a
\* POST with a valid form whose cpf normalizes to c
Corredores(c) ==
  {p \in Procs : /\ pc[p] = "done"
                 /\ resp[p].view # "bloqueado"
                 /\ OutrosValidos(req[p])
                 /\ Regexp(req[p].cpf)
                 /\ limpar_cpf(req[p].cpf) = c
                 /\ Validado[c] = "True"}

\* the normalized form of every raw cpf submitted
Identificadores == {limpar_cpf(r.cpf) : r \in Requests}

(* C2: when the requests of a race have ended, every identifier that was   *)
(* submitted with a valid form on or after the start date has exactly one  *)
(* stored row, exactly one of its requests got the success redirect and    *)
(* every other one the duplicate rejection; and while requests are still   *)
(* running there are never two rows or two successes for an identifier.    *)
C2_UmSoVence ==
  \A c \in Identificadores :
    LET fim      == Corredores(c)
        venceu   == {p \in fim : resp[p] = Redirect(c)}
        rejeitou == {p \in fim : resp[p] = View("duplicado")}
    IN  /\ Cardinality(RowsWith(store, c)) <= 1
        /\ Cardinality(venceu) <= 1
        /\ fim # {} =>
             /\ Cardinality(RowsWith(store, c)) = 1
             /\ Cardinality(venceu) = 1
             /\ rejeitou = fim \ venceu

\* every process submitted the same identifier (one of them punctuated),
\* all have ended, one with the redirect and the others rejected
C2_Witness ==
  LET c == D(CPF_X)
  IN  /\ Corredores(c) = Procs
      /\ \E p \in Procs : req[p].cpf = Pontuado(c)
      /\ \E p \in Procs : resp[p] = Redirect(c)
      /\ \E p \in Procs : resp[p] = View("duplicado")

(* C3: every stored row's cpf is exactly 11 characters, each one of        *)
(* '0'..'9'.                                                               *)
C3_OnzeDigitosAscii ==
  \A i \in DOMAIN store :
    /\ Len(store[i].cpf) = 11
    /\ \A k \in DOMAIN store[i].cpf : store[i].cpf[k] \in Range(ASCII_DIGITS)

\* r with 10 folded to 0
Fold(r) == IF r = 10 THEN 0 ELSE r

\* the condition of C4, on the digits as numbers; digit[i] is d[i + 1]
Conforme(s) ==
  LET d == limpar_cpf(s)
  IN  /\ Len(d) = 11
      /\ \E i \in 1..11 : d[i] # d[1]
      /\ \A i \in 1..11 : int_returns(d[i])
      /\ LET digit(i) == int(d[i + 1])
             S1[n \in 0..9] ==
               IF n = 0 THEN 0 ELSE S1[n - 1] + digit(n - 1) * (10 - (n - 1))
             S2[n \in 0..10] ==
               IF n = 0 THEN 0 ELSE S2[n - 1] + digit(n - 1) * (11 - (n - 1))
         IN  /\ digit(9) = Fold((S1[9] * 10) % 11)
             /\ digit(10) = Fold((S2[10] * 10) % 11)

(* C4: validar_cpf_algoritmo returns True exactly when the digits left     *)
(* after stripping number 11, are not all the same, the 10th equals        *)
(* (sum of digit[i]*(10-i), i=0..8)*10 mod 11 with 10 folded to 0 and the  *)
(* 11th equals (sum of digit[i]*(11-i), i=0..9)*10 mod 11 with 10 folded   *)
(* to 0, and returns False otherwise; repeated-digit strings and           *)
(* "11144477736" are rejected, "11144477735" is accepted.                  *)
C4_VerdadeiroSeESoSe ==
  resultado # "none" =>
    /\ resultado = (IF Conforme(entrada) THEN "True" ELSE "False")
    /\ entrada = D(CPF_X) => resultado = "True"
    /\ entrada = D(<<1, 1, 1, 4, 4, 4, 7, 7, 7, 3, 6>>) => resultado = "False"
    /\ (Len(entrada) = 11 /\ \A i \in 1..11 : entrada[i] = entrada[1])
         => resultado = "False"

\* what validar_cpf_algoritmo does compute: whenever it returns, it returns
\* True exactly on the strings that meet the condition of C4
RetornoConforme ==
  resultado \in {"True", "False"} =>
    resultado = (IF Conforme(entrada) THEN "True" ELSE "False")

(* C5: validar_cpf_algoritmo ends with True or False on every string,      *)
(* never with another error.                                               *)
C5_Total == resultado # "none" => resultado \in {"True", "False"}

\* limpar_cpf of every request's raw cpf, tabulated
Normalizado == [r \in Requests |-> limpar_cpf(r.cpf)]

\* the requests whose field data is valid: the raw cpf passes the Regexp
\* and validar_cpf_algoritmo and the other fields are valid; tabulated
DadosValidos ==
  [r \in Requests |->
     /\ OutrosValidos(r)
     /\ Regexp(r.cpf)
     /\ validar_cpf_algoritmo(r.cpf) = "True"]

\* the requests the form layer lets through when their cpf passes
\* validate_cpf: the raw cpf passes the Regexp and the other fields are
\* valid; tabulated
FormatoValido == [r \in Requests |-> Regexp(r.cpf) /\ OutrosValidos(r)]

\* this step is index() receiving a request in process p (index_begin
\* makes req'[p] the request it received; a step that leaves p's request,
\* position and response as they were is no step of p, or changes nothing)
Recebe(p) ==
  /\ pc[p] # "added"
  /\ <<req'[p], pc'[p], resp'[p]>> # <<req[p], pc[p], resp[p]>>
  /\ req'[p] \in Requests
  /\ index_begin(p, req'[p])

(* C6: once a row with identifier X is stored, any later POST (its other   *)
(* fields valid) whose raw cpf normalizes to X, whatever its punctuation,  *)
(* goes on to the commit and is rejected there as a duplicate, and the     *)
(* store stays as it was, with one row for X.                              *)
C6_QualquerEnvio ==
  [][\A p \in Procs :
       /\ (/\ Recebe(p)
           /\ OutrosValidos(req'[p])
           /\ RowsWith(store, Normalizado[req'[p]]) # {})
          => (store' = store /\ pc'[p] = "added")
       /\ (index_commit(p) /\ RowsWith(store, Normalizado[req[p]]) # {})
          => /\ store' = store
             /\ resp'[p] = View("duplicado")
             /\ Cardinality(RowsWith(store', Normalizado[req[p]])) = 1
    ]_vars

(* C6 amended: once a row with identifier X is stored, a later POST whose  *)
(* raw cpf normalizes to X leaves the store as it was, with one row for X; *)
(* it is rejected as a duplicate when the form validates (the raw cpf      *)
(* holds only digits, '.', '-' and spaces and the other fields are valid)  *)
(* and is answered with the form and its errors, or fails, otherwise.      *)
C6_EnvioValido ==
  [][\A p \in Procs :
       /\ (/\ Recebe(p)
           /\ req'[p].method = "POST"
           /\ RowsWith(store, Normalizado[req'[p]]) # {})
          => /\ store' = store
             /\ IF FormatoValido[req'[p]]
                THEN pc'[p] = "added"
                ELSE /\ pc'[p] = "done"
                     /\ resp'[p].view \in {"register", "erro500"}
       /\ (index_commit(p) /\ RowsWith(store, Normalizado[req[p]]) # {})
          => /\ store' = store
             /\ resp'[p] = View("duplicado")
             /\ Cardinality(RowsWith(store', Normalizado[req[p]])) = 1
    ]_vars

\* X is stored from "11144477735" and "111.444.777-35" was then rejected
\* as a duplicate
C6_Witness ==
  /\ Cardinality(RowsWith(store, D(CPF_X))) = 1
  /\ \E p \in Procs :
       /\ pc[p] = "done"
       /\ req[p].cpf = Pontuado(D(CPF_X))
       /\ resp[p] = View("duplicado")

(* C8: while hoje is before the start date every request to index(), GET   *)
(* or POST and whatever its form data, returns the "not yet open" view,    *)
(* and no step changes the store.                                          *)
C8_Bloqueado ==
  [][hoje < StartDate =>
       /\ store' = store
       /\ \A p \in Procs :
            Recebe(p) =>
              /\ resp'[p] = View("bloqueado")
              /\ pc'[p] = "done"
              /\ session' = session
    ]_vars

\* before the start date a POST of a valid, fresh identifier and a GET
\* both got the "not yet open" view
C8_Witness ==
  /\ hoje < StartDate
  /\ store = <<>>
  /\ \E p, q \in Procs :
       /\ req[p].method = "POST" /\ req[p].cpf = D(CPF_X)
       /\ OutrosValidos(req[p])
       /\ resp[p] = View("bloqueado")
       /\ req[q].method = "GET"
       /\ resp[q] = View("bloqueado")

(* C9: a POST on or after the start date with valid field data reaches the *)
(* commit with the normalized cpf, and when no stored row has that cpf the *)
(* commit leaves exactly one row for it, holding the normalized 11         *)
(* characters, and answers with the redirect to sucesso for that cpf.      *)
C9_Sucesso ==
  [][\A p \in Procs :
       /\ (Recebe(p) /\ hoje >= StartDate /\ DadosValidos[req'[p]])
          => /\ pc'[p] = "added"
             /\ session'[p] =
                  <<[cpf |-> Normalizado[req'[p]], nome |-> req'[p].nome]>>
             /\ store' = store
       /\ (index_commit(p) /\ RowsWith(store, session[p][1].cpf) = {})
          => LET c == Normalizado[req[p]]
             IN  /\ Len(c) = 11
                 /\ Cardinality(RowsWith(store', c)) = 1
                 /\ Len(store') = Len(store) + 1
                 /\ resp'[p] = Redirect(c)
                 /\ pc'[p] = "done"
    ]_vars

\* "111.444.777-35" was stored as "11144477735" and answered with the
\* redirect naming it
C9_Witness ==
  \E p \in Procs :
    /\ pc[p] = "done"
    /\ req[p].cpf = Pontuado(D(CPF_X))
    /\ resp[p] = Redirect(D(CPF_X))
    /\ Cardinality(RowsWith(store, D(CPF_X))) = 1

(* C10: every stored row has a cpf for which validar_cpf_algoritmo returns *)
(* True, and only a POST ever has a row waiting for its commit.            *)
C10_SoCpfValido ==
  /\ \A i \in DOMAIN store : Validado[store[i].cpf] = "True"
  /\ \A p \in Procs :
       pc[p] = "added" =>
         /\ req[p].method = "POST"
         /\ Validado[session[p][1].cpf] = "True"

\* a row is stored, and a POST of "11144477736" (wrong check digit) was
\* answered with the form and no row
C10_Witness ==
  /\ Len(store) >= 1
  /\ \E p \in Procs :
       /\ pc[p] = "done"
       /\ req[p].cpf = D(<<1, 1, 1, 4, 4, 4, 7, 7, 7, 3, 6>>)
       /\ resp[p] = View("register")

====
